---- MODULE Spec2Model ----
(***************************************************************************)
(* MemNet (src/memory-network.ipynb): the multi-hop memory addressing      *)
(* module, its constructor, and its forward entry point __call__ with the  *)
(* unbatched helper call1.                                                 *)
(*                                                                         *)
(* Tensors are modelled as torch stores them: a shape and a row-major flat *)
(* data sequence, so that view / transpose / mm / bmm are index arithmetic *)
(* on the flat storage.  Numbers are integers.  softmax is the stabilised  *)
(* softmax in fixed point with base 2: the row maximum is subtracted, the  *)
(* exponential of a difference d <= 0 is 2^(FracBits+d) (underflowing to 0 *)
(* below -FracBits), and an attention entry is the exact fraction          *)
(* num/den; the weighted sum p.mm(v) rounds to an integer (floor).         *)
(***************************************************************************)
EXTENDS Integers, Sequences, FiniteSets, TLC

\* ---------------------------------------------------------------- bounds
MaxDim == 2        \* the largest tensor dimension (B, N, M, D_in, D_q, H)
MaxLayers == 2     \* the largest n_layers passed to the constructor
FracBits == 4      \* fractional bits of the fixed-point exponential

\* Feature sizes (D_in, D_q, H) a caller uses: the two largest.
Sizes == {MaxDim - 1, MaxDim}
\* Counts (B, N, M) a caller uses: a single one, and the largest.
Counts == {1, MaxDim}
\* Layer counts handed to the constructor: none, and the two largest.
LayerCounts == {0, MaxLayers - 1, MaxLayers}

Seeds == {1, 2}    \* patterns the caller's tensor entries are drawn from
Calls == {1, 2}    \* forward invocations that may be in flight
XRanks == {1, 2, 3, 4}
QRanks == {1, 2, 3}

VARIABLES net, ctor, frames

vars == <<net, ctor, frames>>

\* ------------------------------------------------------------- tensors
RECURSIVE Prod(_)
Prod(s) == IF s = <<>> THEN 1 ELSE Head(s) * Prod(Tail(s))

RECURSIVE SumSeq(_)
SumSeq(s) == IF s = <<>> THEN 0 ELSE Head(s) + SumSeq(Tail(s))

RECURSIVE MaxSeq(_)
MaxSeq(s) == IF Len(s) = 1 THEN s[1]
             ELSE LET m == MaxSeq(Tail(s)) IN IF Head(s) >= m THEN Head(s) ELSE m

\* A tensor: shape, flat row-major data; den holds the denominators of a
\* softmax output (empty for every other tensor).
Tensor(shape, data) == [shape |-> shape, data |-> data, den |-> <<>>]

NoTensor == [shape |-> <<>>, data |-> <<>>, den |-> <<>>]

Rank(t) == Len(t.shape)

\* torch.randn / caller data: entries in -1..1, a fixed pattern per seed.
GenTensor(shape, seed) ==
    Tensor(shape, [k \in 1..Prod(shape) |-> ((k * k * seed + k + seed) % 3) - 1])

\* The shapes of a rank a caller passes: counts in front, a feature size
\* last; a rank-4 tensor has one more leading dimension.
ShapesOf(r) ==
    CASE r = 1 -> {<<d>> : d \in Sizes}
      [] r = 2 -> {<<n, d>> : n \in Counts, d \in Sizes}
      [] r = 3 -> {<<b, n, d>> : b \in Counts, n \in Counts, d \in Sizes}
      [] OTHER -> {<<1, b, MaxDim, d>> : b \in Counts, d \in Sizes}

\* x[b] of a rank-3 tensor: the b-th [n, d] block of the storage.
Slice(t, b) ==
    LET n == t.shape[2]
        d == t.shape[3]
    IN  [shape |-> <<n, d>>,
         data |-> [k \in 1..(n * d) |-> t.data[(b - 1) * n * d + k]],
         den |-> IF t.den = <<>> THEN <<>>
                 ELSE [k \in 1..(n * d) |-> t.den[(b - 1) * n * d + k]]]

\* Tensor.view on a contiguous tensor: same storage, new shape.
CanView(t, shape) == Prod(shape) = Len(t.data)

View(t, shape) == [t EXCEPT !.shape = shape]

\* Tensor.t(): transpose of a matrix.
T(a) ==
    LET r == a.shape[1]
        c == a.shape[2]
    IN  Tensor(<<c, r>>,
               [k \in 1..(r * c) |->
                   LET i == ((k - 1) \div r) + 1
                       j == ((k - 1) % r) + 1
                   IN  a.data[(j - 1) * c + i]])

\* Tensor.transpose(1, 2) of a rank-3 tensor.
Transpose12(a) ==
    LET b == a.shape[1]
        r == a.shape[2]
        c == a.shape[3]
    IN  Tensor(<<b, c, r>>,
               [k \in 1..(b * r * c) |->
                   LET bb == (k - 1) \div (r * c)
                       rem == (k - 1) % (r * c)
                       i == (rem \div r) + 1
                       j == (rem % r) + 1
                   IN  a.data[bb * r * c + (j - 1) * c + i]])

\* Tensor.mm: [m, n] x [n, p].
CanMm(a, b) == Rank(a) = 2 /\ Rank(b) = 2 /\ a.shape[2] = b.shape[1]

Mm(a, b) ==
    LET m == a.shape[1]
        n == a.shape[2]
        p == b.shape[2]
    IN  Tensor(<<m, p>>,
               [k \in 1..(m * p) |->
                   LET i == ((k - 1) \div p) + 1
                       j == ((k - 1) % p) + 1
                   IN  SumSeq([l \in 1..n |->
                           a.data[(i - 1) * n + l] * b.data[(l - 1) * p + j]])])

\* Tensor.bmm: [B, m, n] x [B, n, p].
CanBmm(a, b) ==
    /\ Rank(a) = 3 /\ Rank(b) = 3
    /\ a.shape[1] = b.shape[1]
    /\ a.shape[3] = b.shape[2]

Bmm(a, b) ==
    LET bs == a.shape[1]
        m == a.shape[2]
        n == a.shape[3]
        p == b.shape[3]
    IN  Tensor(<<bs, m, p>>,
               [k \in 1..(bs * m * p) |->
                   LET bb == (k - 1) \div (m * p)
                       rem == (k - 1) % (m * p)
                       i == (rem \div p) + 1
                       j == (rem % p) + 1
                   IN  SumSeq([l \in 1..n |->
                           a.data[bb * m * n + (i - 1) * n + l]
                           * b.data[bb * n * p + (l - 1) * p + j]])])

\* z + w, elementwise on equal shapes.
CanAdd(a, b) == a.shape = b.shape

TAdd(a, b) == Tensor(a.shape, [k \in 1..Len(a.data) |-> a.data[k] + b.data[k]])

\* exp(d) for d <= 0 in fixed point, base 2.
Exp2(d) == IF -d > FracBits THEN 0 ELSE 2 ^ (FracBits + d)

\* F.softmax on a matrix: over dimension 1, each row on its own.  Entry
\* (r, j) is num/den with num = exp(s[r,j] - max_r) and den the row's sum.
Softmax(s) ==
    LET R == s.shape[1]
        N == s.shape[2]
        row(r) == [j \in 1..N |-> s.data[(r - 1) * N + j]]
        num(r, j) == Exp2(s.data[(r - 1) * N + j] - MaxSeq(row(r)))
        rowden(r) == SumSeq([j \in 1..N |-> num(r, j)])
    IN  [shape |-> s.shape,
         data |-> [k \in 1..(R * N) |-> num(((k - 1) \div N) + 1, ((k - 1) % N) + 1)],
         den |-> [k \in 1..(R * N) |-> rowden(((k - 1) \div N) + 1)]]

\* p.mm(v) with p a softmax output [m, n] and v [n, h]: the weighted sum of
\* the rows of v, rounded down.  The entries of a row of p share its den.
MmP(p, v) ==
    LET m == p.shape[1]
        n == p.shape[2]
        h == v.shape[2]
    IN  Tensor(<<m, h>>,
               [k \in 1..(m * h) |->
                   LET i == ((k - 1) \div h) + 1
                       j == ((k - 1) % h) + 1
                   IN  SumSeq([l \in 1..n |->
                           p.data[(i - 1) * n + l] * v.data[(l - 1) * h + j]])
                       \div p.den[(i - 1) * n + 1]])

\* p.bmm(v) with p a softmax output [B, m, n] and v [B, n, h].
BmmP(p, v) ==
    LET bs == p.shape[1]
        m == p.shape[2]
        n == p.shape[3]
        h == v.shape[3]
    IN  Tensor(<<bs, m, h>>,
               [k \in 1..(bs * m * h) |->
                   LET bb == (k - 1) \div (m * h)
                       rem == (k - 1) % (m * h)
                       i == (rem \div h) + 1
                       j == (rem % h) + 1
                   IN  SumSeq([l \in 1..n |->
                           p.data[bb * m * n + (i - 1) * n + l]
                           * v.data[bb * n * h + (l - 1) * h + j]])
                       \div p.den[bb * m * n + (i - 1) * n + 1]])

\* ------------------------------------------------------------ nn.Linear
\* nn.Linear(in_features, out_features): weight [out, in] and bias [out].
\* The constructor allocates and initialises them and fails on a size that
\* is not positive (torch 0.1.12: the allocation, or reset_parameters).
CanNewLinear(in_features, out_features) == in_features > 0 /\ out_features > 0

NewLinear(in_features, out_features, seed) ==
    [in_features |-> in_features,
     out_features |-> out_features,
     weight |-> GenTensor(<<out_features, in_features>>, seed),
     bias |-> GenTensor(<<out_features>>, seed + 1)]

\* Linear.forward (addmm): a matrix whose rows have in_features entries.
CanLinear(layer, t) == Rank(t) = 2 /\ t.shape[2] = layer.in_features

Linear(layer, t) ==
    LET rows == t.shape[1]
        nin == layer.in_features
        nout == layer.out_features
    IN  Tensor(<<rows, nout>>,
               [k \in 1..(rows * nout) |->
                   LET r == ((k - 1) \div nout) + 1
                       o == ((k - 1) % nout) + 1
                   IN  SumSeq([i \in 1..nin |->
                           t.data[(r - 1) * nin + i]
                           * layer.weight.data[(o - 1) * nin + i]])
                       + layer.bias.data[o]])

\* --------------------------------------------------------------- MemNet
NoNet == [input_size |-> 0, query_size |-> 0, hidden_size |-> 0, n_layers |-> 0,
          h |-> NewLinear(0, 0, 0), fs |-> <<>>, gs |-> <<>>]

\* range(n_layers): empty when n_layers <= 0.
Range(n) == IF n > 0 THEN 1..n ELSE {}

\* MemNet.__init__: no check of its own; nn.Linear raises on a size that is
\* not positive, and with n_layers <= 0 neither list comprehension builds a
\* Linear, so only h is constructed.
InitRaises(input_size, query_size, hidden_size, n_layers) ==
    \/ ~CanNewLinear(query_size, hidden_size)
    \/ (Range(n_layers) # {} /\ ~CanNewLinear(input_size, hidden_size))

MemNetInit(input_size, query_size, hidden_size, n_layers, seed) ==
    [input_size |-> input_size,
     query_size |-> query_size,
     hidden_size |-> hidden_size,
     n_layers |-> n_layers,
     h |-> NewLinear(query_size, hidden_size, seed),
     fs |-> [i \in Range(n_layers) |-> NewLinear(input_size, hidden_size, seed + i)],
     gs |-> [i \in Range(n_layers) |-> NewLinear(input_size, hidden_size, seed + n_layers + i)]]

\* zip(self.fs, self.gs): the number of (f, g) pairs the hop loop visits.
NHops(n) == Len(n.fs)

\* ---------------------------------------------------- a forward invocation
\* What a call returns: z alone, or the tuple (z, masks).
NoResult == [kind |-> "none", z |-> NoTensor, masks |-> <<>>]

\* The locals of one invocation of __call__ / call1, its position pc, and
\* nproj, the number of projections (h, f_i, g_i) it has applied so far.
IdleFrame ==
    [pc |-> "idle", form |-> "none",
     x |-> NoTensor, q |-> NoTensor, return_masks |-> FALSE,
     masks |-> <<>>, z |-> NoTensor, i |-> 0,
     u |-> NoTensor, v |-> NoTensor, s |-> NoTensor, p |-> NoTensor, w |-> NoTensor,
     x_flat |-> NoTensor, q_flat |-> NoTensor,
     batch_size |-> 0, n_inputs |-> 0, batch_size2 |-> 0, n_queries |-> 0,
     nproj |-> 0, result |-> NoResult, err |-> "none"]

\* memnet(x, q, return_masks=...): entry of __call__.
NewFrame(x, q, return_masks) ==
    [IdleFrame EXCEPT !.pc = "dispatch", !.x = x, !.q = q,
                      !.return_masks = return_masks]

\* An exception leaves the invocation: its locals are gone, no value is returned.
RaiseIn(fr, kind) ==
    [IdleFrame EXCEPT !.pc = "error", !.form = fr.form, !.x = fr.x, !.q = fr.q,
                      !.return_masks = fr.return_masks, !.nproj = fr.nproj,
                      !.i = fr.i, !.err = kind]

\* return (z, masks) if return_masks else z
ReturnValue(fr) ==
    IF fr.return_masks
    THEN [kind |-> "tuple", z |-> fr.z, masks |-> fr.masks]
    ELSE [kind |-> "tensor", z |-> fr.z, masks |-> <<>>]

ReturnFrom(fr) ==
    [IdleFrame EXCEPT !.pc = "done", !.form = fr.form, !.x = fr.x, !.q = fr.q,
                      !.return_masks = fr.return_masks, !.nproj = fr.nproj,
                      !.i = fr.i, !.result = ReturnValue(fr)]

\* Dispatch on "not rank 3" instead of "rank 2".
DispatchNot3(n, fr) ==
    IF Rank(fr.x) # 3
    THEN [fr EXCEPT !.pc = "c1_h", !.form = "call1"]
    ELSE [fr EXCEPT !.pc = "b_size_x", !.form = "batched"]

\* if x.ndimension() == 2: return self.call1(...)
Dispatch(n, fr) ==
    IF Rank(fr.x) = 2
    THEN [fr EXCEPT !.pc = "c1_h", !.form = "call1"]
    ELSE [fr EXCEPT !.pc = "b_size_x", !.form = "batched"]

\* for f, g in zip(self.fs, self.gs): the next pair, or the end of the loop.
LoopNext(n, fr, body, exit) ==
    IF fr.i < NHops(n)
    THEN [fr EXCEPT !.pc = body, !.i = fr.i + 1]
    ELSE [fr EXCEPT !.pc = exit]

\* The key and the value projection of the hop the invocation is in.
HopF(n, fr) == n.fs[fr.i]

HopG(n, fr) == n.gs[fr.i]

\* --------------------------------------------------------- call1 (unbatched)
\* masks = [] if return_masks else None;  z = self.h(q)
C1_H(n, fr) ==
    IF ~CanLinear(n.h, fr.q) THEN RaiseIn(fr, "RuntimeError")
    ELSE LoopNext(n, [fr EXCEPT !.masks = <<>>, !.z = Linear(n.h, fr.q),
                                !.nproj = fr.nproj + 1],
                  "c1_u", "c1_return")

\* u = f(x)
C1_U(n, fr) ==
    IF ~CanLinear(HopF(n, fr), fr.x) THEN RaiseIn(fr, "RuntimeError")
    ELSE [fr EXCEPT !.pc = "c1_v", !.u = Linear(HopF(n, fr), fr.x),
                    !.nproj = fr.nproj + 1]

\* v = g(x)
C1_V(n, fr) ==
    IF ~CanLinear(HopG(n, fr), fr.x) THEN RaiseIn(fr, "RuntimeError")
    ELSE [fr EXCEPT !.pc = "c1_score", !.v = Linear(HopG(n, fr), fr.x),
                    !.nproj = fr.nproj + 1]

\* z.mm(u.t())
C1_Score(n, fr) ==
    IF ~CanMm(fr.z, T(fr.u)) THEN RaiseIn(fr, "RuntimeError")
    ELSE [fr EXCEPT !.pc = "c1_softmax", !.s = Mm(fr.z, T(fr.u))]

\* p = F.softmax(...)
C1_Softmax(n, fr) == [fr EXCEPT !.pc = "c1_aggregate", !.p = Softmax(fr.s)]

\* w = p.mm(v)
C1_Aggregate(n, fr) ==
    IF ~CanMm(fr.p, fr.v) THEN RaiseIn(fr, "RuntimeError")
    ELSE [fr EXCEPT !.pc = "c1_residual", !.w = MmP(fr.p, fr.v)]

\* z = w: the hop's aggregate replaces the state instead of being added.
C1_ResidualOverwrite(n, fr) ==
    IF ~CanAdd(fr.z, fr.w) THEN RaiseIn(fr, "RuntimeError")
    ELSE [fr EXCEPT !.pc = "c1_append", !.z = fr.w]

\* z = z + w
C1_Residual(n, fr) ==
    IF ~CanAdd(fr.z, fr.w) THEN RaiseIn(fr, "RuntimeError")
    ELSE [fr EXCEPT !.pc = "c1_append", !.z = TAdd(fr.z, fr.w)]

\* masks.insert(0, p): the masks come out in reverse hop order.
C1_AppendFront(n, fr) ==
    LoopNext(n, [fr EXCEPT !.masks = IF fr.return_masks THEN <<fr.p>> \o fr.masks
                                     ELSE fr.masks],
             "c1_u", "c1_return")

\* if return_masks: masks.append(p)
C1_Append(n, fr) ==
    LoopNext(n, [fr EXCEPT !.masks = IF fr.return_masks THEN Append(fr.masks, fr.p)
                                     ELSE fr.masks],
             "c1_u", "c1_return")

\* return (z, masks) if return_masks else z
C1_Return(n, fr) == ReturnFrom(fr)

\* ------------------------------------------------------- __call__ (batched)
\* masks = [] if return_masks else None;  batch_size, n_inputs, _ = x.size()
B_SizeX(n, fr) ==
    IF Rank(fr.x) # 3 THEN RaiseIn(fr, "ValueError")
    ELSE [fr EXCEPT !.pc = "b_flatten_x", !.masks = <<>>,
                    !.batch_size = fr.x.shape[1], !.n_inputs = fr.x.shape[2]]

\* x.resize_(...) in place of x.view(...): the caller's tensor is reshaped.
B_FlattenXResize(n, fr) ==
    LET shape == <<fr.batch_size * fr.n_inputs, n.input_size>>
    IN  IF ~CanView(fr.x, shape) THEN RaiseIn(fr, "RuntimeError")
        ELSE [fr EXCEPT !.pc = "b_size_q", !.x_flat = View(fr.x, shape),
                        !.x = View(fr.x, shape)]

\* x_flat = x.view(batch_size*n_inputs, self.input_size)
B_FlattenX(n, fr) ==
    LET shape == <<fr.batch_size * fr.n_inputs, n.input_size>>
    IN  IF ~CanView(fr.x, shape) THEN RaiseIn(fr, "RuntimeError")
        ELSE [fr EXCEPT !.pc = "b_size_q", !.x_flat = View(fr.x, shape)]

\* batch_size2, n_queries, _ = q.size()
B_SizeQ(n, fr) ==
    IF Rank(fr.q) # 3 THEN RaiseIn(fr, "ValueError")
    ELSE [fr EXCEPT !.pc = "b_flatten_q",
                    !.batch_size2 = fr.q.shape[1], !.n_queries = fr.q.shape[2]]

\* q_flat = q.view(batch_size2*n_queries, self.query_size)
B_FlattenQ(n, fr) ==
    LET shape == <<fr.batch_size2 * fr.n_queries, n.query_size>>
    IN  IF ~CanView(fr.q, shape) THEN RaiseIn(fr, "RuntimeError")
        ELSE [fr EXCEPT !.pc = "b_assert", !.q_flat = View(fr.q, shape)]

\* The batch-size check left out.
B_AssertStripped(n, fr) == [fr EXCEPT !.pc = "b_h"]

\* assert batch_size == batch_size2
B_Assert(n, fr) ==
    IF fr.batch_size # fr.batch_size2 THEN RaiseIn(fr, "AssertionError")
    ELSE [fr EXCEPT !.pc = "b_h"]

\* z_flat = self.h(q_flat);  z = z_flat.view(batch_size, n_queries, self.hidden_size)
B_H(n, fr) ==
    LET shape == <<fr.batch_size, fr.n_queries, n.hidden_size>>
    IN  IF ~CanLinear(n.h, fr.q_flat) THEN RaiseIn(fr, "RuntimeError")
        ELSE IF ~CanView(Linear(n.h, fr.q_flat), shape)
             THEN RaiseIn([fr EXCEPT !.nproj = fr.nproj + 1], "RuntimeError")
        ELSE LoopNext(n, [fr EXCEPT !.z = View(Linear(n.h, fr.q_flat), shape),
                                    !.nproj = fr.nproj + 1],
                      "b_u", "b_return")

\* u_flat = f(x_flat);  u = u_flat.view(batch_size, n_inputs, self.hidden_size)
B_U(n, fr) ==
    LET shape == <<fr.batch_size, fr.n_inputs, n.hidden_size>>
    IN  IF ~CanLinear(HopF(n, fr), fr.x_flat) THEN RaiseIn(fr, "RuntimeError")
        ELSE IF ~CanView(Linear(HopF(n, fr), fr.x_flat), shape)
             THEN RaiseIn([fr EXCEPT !.nproj = fr.nproj + 1], "RuntimeError")
        ELSE [fr EXCEPT !.pc = "b_score",
                        !.u = View(Linear(HopF(n, fr), fr.x_flat), shape),
                        !.nproj = fr.nproj + 1]

\* uT taken by viewing u as [batch, hidden, n_inputs] instead of transposing.
B_ScoreViewed(n, fr) ==
    LET uT == View(fr.u, <<fr.u.shape[1], fr.u.shape[3], fr.u.shape[2]>>)
    IN  IF ~CanBmm(fr.z, uT) THEN RaiseIn(fr, "RuntimeError")
        ELSE [fr EXCEPT !.pc = "b_softmax", !.s = Bmm(fr.z, uT)]

\* uT = u.transpose(1, 2);  s = z.bmm(uT)
B_Score(n, fr) ==
    IF ~CanBmm(fr.z, Transpose12(fr.u)) THEN RaiseIn(fr, "RuntimeError")
    ELSE [fr EXCEPT !.pc = "b_softmax", !.s = Bmm(fr.z, Transpose12(fr.u))]

\* s flattened to [batch, n_queries*n_inputs]: softmax across the queries.
B_SoftmaxAcrossQueries(n, fr) ==
    LET flat == <<fr.batch_size, fr.n_queries * fr.n_inputs>>
        shape == <<fr.batch_size, fr.n_queries, fr.n_inputs>>
    IN  IF ~CanView(fr.s, flat) THEN RaiseIn(fr, "RuntimeError")
        ELSE [fr EXCEPT !.pc = "b_v",
                        !.p = View(Softmax(View(fr.s, flat)), shape)]

\* s_flat = s.view(batch_size*n_queries, n_inputs);  p_flat = F.softmax(s_flat)
\* p = p_flat.view(batch_size, n_queries, n_inputs)
B_Softmax(n, fr) ==
    LET flat == <<fr.batch_size * fr.n_queries, fr.n_inputs>>
        shape == <<fr.batch_size, fr.n_queries, fr.n_inputs>>
    IN  IF ~CanView(fr.s, flat) THEN RaiseIn(fr, "RuntimeError")
        ELSE [fr EXCEPT !.pc = "b_v",
                        !.p = View(Softmax(View(fr.s, flat)), shape)]

\* v_flat = g(x_flat);  v = v_flat.view(batch_size, n_inputs, self.hidden_size)
B_V(n, fr) ==
    LET shape == <<fr.batch_size, fr.n_inputs, n.hidden_size>>
    IN  IF ~CanLinear(HopG(n, fr), fr.x_flat) THEN RaiseIn(fr, "RuntimeError")
        ELSE IF ~CanView(Linear(HopG(n, fr), fr.x_flat), shape)
             THEN RaiseIn([fr EXCEPT !.nproj = fr.nproj + 1], "RuntimeError")
        ELSE [fr EXCEPT !.pc = "b_aggregate",
                        !.v = View(Linear(HopG(n, fr), fr.x_flat), shape),
                        !.nproj = fr.nproj + 1]

\* w = p.bmm(v)
B_Aggregate(n, fr) ==
    IF ~CanBmm(fr.p, fr.v) THEN RaiseIn(fr, "RuntimeError")
    ELSE [fr EXCEPT !.pc = "b_residual", !.w = BmmP(fr.p, fr.v)]

\* z = z + w
B_Residual(n, fr) ==
    IF ~CanAdd(fr.z, fr.w) THEN RaiseIn(fr, "RuntimeError")
    ELSE [fr EXCEPT !.pc = "b_append", !.z = TAdd(fr.z, fr.w)]

\* if return_masks: masks.append(p)
B_Append(n, fr) ==
    LoopNext(n, [fr EXCEPT !.masks = IF fr.return_masks THEN Append(fr.masks, fr.p)
                                     ELSE fr.masks],
             "b_u", "b_return")

\* return (z, masks) if return_masks else z
B_Return(n, fr) == ReturnFrom(fr)

\* ------------------------------------------------------------ state machine
\* z kept on the instance (self.z): an invocation reads the z another
\* invocation in flight has stored.
LocalsOnInstance(fs, c) ==
    LET others == {d \in DOMAIN fs : d # c /\ fs[d].z # NoTensor}
    IN  IF others = {} THEN fs[c]
        ELSE [fs[c] EXCEPT !.z = fs[CHOOSE d \in others : TRUE].z]

\* z, masks and the other names of call1 / __call__ are locals: each
\* invocation reads and writes its own.
Locals(fs, c) == fs[c]

Init ==
    /\ net = NoNet
    /\ ctor = "none"
    /\ frames = [c \in Calls |-> IdleFrame]

\* memnet = MemNet(input_size, query_size, hidden_size, n_layers=...)
New(input_size, query_size, hidden_size, n_layers, seed) ==
    /\ ctor = "none"
    /\ IF InitRaises(input_size, query_size, hidden_size, n_layers)
       THEN /\ ctor' = "error"
            /\ net' = [NoNet EXCEPT !.input_size = input_size,
                                    !.query_size = query_size,
                                    !.hidden_size = hidden_size,
                                    !.n_layers = n_layers]
       ELSE /\ ctor' = "ok"
            /\ net' = MemNetInit(input_size, query_size, hidden_size, n_layers, seed)
    /\ UNCHANGED frames

Construct ==
    \E input_size \in {0} \cup Sizes, query_size \in {0} \cup Sizes,
       hidden_size \in {0} \cup Sizes, n_layers \in LayerCounts :
        New(input_size, query_size, hidden_size, n_layers, 1)

ConstructFull == New(MaxDim, MaxDim, MaxDim, MaxLayers, 1)

\* memnet(x, q, return_masks=rm) by caller c
Call(c, x, q, rm) ==
    /\ ctor = "ok"
    /\ frames[c].pc = "idle"
    /\ frames' = [frames EXCEPT ![c] = NewFrame(x, q, rm)]
    /\ UNCHANGED <<net, ctor>>

CallAny(c) ==
    \E rx \in XRanks, rq \in QRanks, seed \in Seeds, rm \in BOOLEAN :
        \E sx \in ShapesOf(rx), sq \in ShapesOf(rq) :
            Call(c, GenTensor(sx, seed), GenTensor(sq, seed + 1), rm)

\* Calls on tensors of the instance's sizes with MaxDim facts and queries:
\* unbatched, or batched with batch sizes that may differ.
CallSized(c) ==
    \E seed \in Seeds, rm \in BOOLEAN :
        \/ Call(c, GenTensor(<<MaxDim, net.input_size>>, seed),
                   GenTensor(<<MaxDim, net.query_size>>, seed + 1), rm)
        \/ \E b \in Counts : \E b2 \in {b, MaxDim} :
               Call(c, GenTensor(<<b, MaxDim, net.input_size>>, seed),
                       GenTensor(<<b2, MaxDim, net.query_size>>, seed + 1), rm)

Do(c, pc, next) ==
    /\ frames[c].pc = pc
    /\ frames' = [frames EXCEPT ![c] = next]
    /\ UNCHANGED <<net, ctor>>

DoDispatch(c) == Do(c, "dispatch", Dispatch(net, Locals(frames, c)))

DoC1_H(c) == Do(c, "c1_h", C1_H(net, Locals(frames, c)))

DoC1_U(c) == Do(c, "c1_u", C1_U(net, Locals(frames, c)))

DoC1_V(c) == Do(c, "c1_v", C1_V(net, Locals(frames, c)))

DoC1_Score(c) == Do(c, "c1_score", C1_Score(net, Locals(frames, c)))

DoC1_Softmax(c) == Do(c, "c1_softmax", C1_Softmax(net, Locals(frames, c)))

DoC1_Aggregate(c) == Do(c, "c1_aggregate", C1_Aggregate(net, Locals(frames, c)))

DoC1_Residual(c) == Do(c, "c1_residual", C1_Residual(net, Locals(frames, c)))

DoC1_Append(c) == Do(c, "c1_append", C1_Append(net, Locals(frames, c)))

DoC1_Return(c) == Do(c, "c1_return", C1_Return(net, Locals(frames, c)))

DoB_SizeX(c) == Do(c, "b_size_x", B_SizeX(net, Locals(frames, c)))

DoB_FlattenX(c) == Do(c, "b_flatten_x", B_FlattenX(net, Locals(frames, c)))

DoB_SizeQ(c) == Do(c, "b_size_q", B_SizeQ(net, Locals(frames, c)))

DoB_FlattenQ(c) == Do(c, "b_flatten_q", B_FlattenQ(net, Locals(frames, c)))

DoB_Assert(c) == Do(c, "b_assert", B_Assert(net, Locals(frames, c)))

DoB_H(c) == Do(c, "b_h", B_H(net, Locals(frames, c)))

DoB_U(c) == Do(c, "b_u", B_U(net, Locals(frames, c)))

DoB_Score(c) == Do(c, "b_score", B_Score(net, Locals(frames, c)))

DoB_Softmax(c) == Do(c, "b_softmax", B_Softmax(net, Locals(frames, c)))

DoB_V(c) == Do(c, "b_v", B_V(net, Locals(frames, c)))

DoB_Aggregate(c) == Do(c, "b_aggregate", B_Aggregate(net, Locals(frames, c)))

DoB_Residual(c) == Do(c, "b_residual", B_Residual(net, Locals(frames, c)))

DoB_Append(c) == Do(c, "b_append", B_Append(net, Locals(frames, c)))

DoB_Return(c) == Do(c, "b_return", B_Return(net, Locals(frames, c)))

\* The caller has the value or the exception; the invocation is over.
Finish(c) ==
    /\ frames[c].pc \in {"done", "error"}
    /\ frames' = [frames EXCEPT ![c] = IdleFrame]
    /\ UNCHANGED <<net, ctor>>

Forward(c) ==
    \/ DoDispatch(c)
    \/ DoC1_H(c) \/ DoC1_U(c) \/ DoC1_V(c) \/ DoC1_Score(c) \/ DoC1_Softmax(c)
    \/ DoC1_Aggregate(c) \/ DoC1_Residual(c) \/ DoC1_Append(c) \/ DoC1_Return(c)
    \/ DoB_SizeX(c) \/ DoB_FlattenX(c) \/ DoB_SizeQ(c) \/ DoB_FlattenQ(c)
    \/ DoB_Assert(c) \/ DoB_H(c) \/ DoB_U(c) \/ DoB_Score(c) \/ DoB_Softmax(c)
    \/ DoB_V(c) \/ DoB_Aggregate(c) \/ DoB_Residual(c) \/ DoB_Append(c)
    \/ DoB_Return(c)
    \/ Finish(c)

\* One caller at a time, any arguments.
Next ==
    \/ Construct
    \/ CallAny(1)
    \/ Forward(1)

Spec == Init /\ [][Next]_vars

\* Several callers whose invocations interleave step by step.
NextConc ==
    \/ ConstructFull
    \/ \E c \in Calls : CallSized(c) \/ Forward(c)

SpecConc == Init /\ [][NextConc]_vars

\* ------------------------------------------------- one invocation on its own
\* The statement an invocation at fr.pc executes next.
StepOf(n, fr) ==
    CASE fr.pc = "dispatch" -> Dispatch(n, fr)
      [] fr.pc = "c1_h" -> C1_H(n, fr)
      [] fr.pc = "c1_u" -> C1_U(n, fr)
      [] fr.pc = "c1_v" -> C1_V(n, fr)
      [] fr.pc = "c1_score" -> C1_Score(n, fr)
      [] fr.pc = "c1_softmax" -> C1_Softmax(n, fr)
      [] fr.pc = "c1_aggregate" -> C1_Aggregate(n, fr)
      [] fr.pc = "c1_residual" -> C1_Residual(n, fr)
      [] fr.pc = "c1_append" -> C1_Append(n, fr)
      [] fr.pc = "c1_return" -> C1_Return(n, fr)
      [] fr.pc = "b_size_x" -> B_SizeX(n, fr)
      [] fr.pc = "b_flatten_x" -> B_FlattenX(n, fr)
      [] fr.pc = "b_size_q" -> B_SizeQ(n, fr)
      [] fr.pc = "b_flatten_q" -> B_FlattenQ(n, fr)
      [] fr.pc = "b_assert" -> B_Assert(n, fr)
      [] fr.pc = "b_h" -> B_H(n, fr)
      [] fr.pc = "b_u" -> B_U(n, fr)
      [] fr.pc = "b_score" -> B_Score(n, fr)
      [] fr.pc = "b_softmax" -> B_Softmax(n, fr)
      [] fr.pc = "b_v" -> B_V(n, fr)
      [] fr.pc = "b_aggregate" -> B_Aggregate(n, fr)
      [] fr.pc = "b_residual" -> B_Residual(n, fr)
      [] fr.pc = "b_append" -> B_Append(n, fr)
      [] fr.pc = "b_return" -> B_Return(n, fr)
      [] OTHER -> fr

\* The invocation run to its end with nothing else running.
RECURSIVE Run(_, _)
Run(n, fr) == IF fr.pc \in {"idle", "done", "error"} THEN fr ELSE Run(n, StepOf(n, fr))

RunAlone(n, x, q, rm) == Run(n, NewFrame(x, q, rm))

\* ----------------------------------------------- the addressing function
\* Matrices as sequences of rows, for stating what forward computes.
Mat(t) ==
    [r \in 1..t.shape[1] |-> [c \in 1..t.shape[2] |-> t.data[(r - 1) * t.shape[2] + c]]]

\* A softmax output as rows of numerators with the row's denominator.
MatP(p) ==
    [r \in 1..p.shape[1] |->
        [num |-> [c \in 1..p.shape[2] |-> p.data[(r - 1) * p.shape[2] + c]],
         den |-> p.den[(r - 1) * p.shape[2] + 1]]]

Dot(a, b) == SumSeq([i \in 1..Len(a) |-> a[i] * b[i]])

\* The affine map of a layer applied to every row of A.
Affine(layer, A) ==
    [r \in 1..Len(A) |->
        [o \in 1..layer.out_features |->
            Dot(A[r], [i \in 1..layer.in_features |->
                          layer.weight.data[(o - 1) * layer.in_features + i]])
            + layer.bias.data[o]]]

RowSoftmax(srow) ==
    LET num == [j \in 1..Len(srow) |-> Exp2(srow[j] - MaxSeq(srow))]
    IN  [num |-> num, den |-> SumSeq(num)]

\* The one element of a singleton.  Values are bound through singleton sets
\* below so that each is evaluated once.
Only(S) == CHOOSE v \in S : TRUE

\* rowSoftmax(Z * U^T)
Attend(Z, U) ==
    [m \in 1..Len(Z) |-> RowSoftmax([j \in 1..Len(U) |-> Dot(Z[m], U[j])])]

\* P_i = rowSoftmax(Z_{i-1} * f_i(X)^T)
HopP(n, X, Zprev, i) ==
    Only({Attend(Z, U) : Z \in {Zprev}, U \in {Affine(n.fs[i], X)}})

\* Z + P * V, each row's weighted sum rounded down.
HopUpdate(Z, P, V) ==
    [m \in 1..Len(Z) |->
        [k \in 1..Len(Z[m]) |->
            Z[m][k] + (SumSeq([j \in 1..Len(V) |-> P[m].num[j] * V[j][k]]) \div P[m].den)]]

\* Z_i from Z_{i-1}: Z_{i-1} + P_i * g_i(X)
HopNext(n, X, Zprev, i) ==
    Only({Only({HopUpdate(Z, P, V) : P \in {HopP(n, X, Z, i)}, V \in {Affine(n.gs[i], X)}})
            : Z \in {Zprev}})

\* Z_0 = h(Q),  Z_i = Z_{i-1} + P_i * g_i(X)
RECURSIVE HopZ(_, _, _, _)
HopZ(n, X, Q, i) ==
    IF i = 0 THEN Affine(n.h, Q) ELSE HopNext(n, X, HopZ(n, X, Q, i - 1), i)

Active == {c \in Calls : frames[c].pc # "idle"}

Returned == {c \in Calls : frames[c].pc = "done"}

Raised == {c \in Calls : frames[c].pc = "error"}

\* The problem instances of a call: the whole of an unbatched call, every
\* batch index of a batched one.
Instances(fr) == IF fr.form = "call1" THEN {0} ELSE 1..fr.x.shape[1]

Part(t, b) == IF b = 0 THEN t ELSE Slice(t, b)

\* ================================================================ claims

\* C1: a batched forward that returns gives, at every batch index b, the z
\* (and, with return_masks, every hop's mask) that the unbatched forward
\* returns on x[b], q[b].
BatchedEqualsUnbatched ==
    \A c \in Returned :
        LET fr == frames[c]
        IN  fr.form = "batched" =>
                \A b \in 1..fr.x.shape[1] :
                    LET one == RunAlone(net, Slice(fr.x, b), Slice(fr.q, b), fr.return_masks)
                    IN  /\ one.pc = "done"
                        /\ one.form = "call1"
                        /\ one.result.kind = fr.result.kind
                        /\ one.result.z = Slice(fr.result.z, b)
                        /\ Len(one.result.masks) = Len(fr.result.masks)
                        /\ \A i \in 1..Len(fr.result.masks) :
                               one.result.masks[i] = Slice(fr.result.masks[i], b)

\* A batched call over two instances and two hops, with masks, whose two
\* instances end in different z.
BatchedEqualsUnbatchedWitness ==
    \E c \in Returned :
        /\ frames[c].form = "batched"
        /\ frames[c].return_masks
        /\ frames[c].x.shape = <<MaxDim, MaxDim, MaxDim>>
        /\ frames[c].q.shape = <<MaxDim, MaxDim, MaxDim>>
        /\ net.hidden_size = MaxDim
        /\ Len(frames[c].result.masks) = MaxLayers
        /\ Slice(frames[c].result.z, 1) # Slice(frames[c].result.z, 2)
        /\ Slice(frames[c].result.masks[2], 1) # Slice(frames[c].result.masks[2], 2)

\* C10: the z a call returns is Z_k of Z_0 = h(Q), Z_i = Z_{i-1} + P_i g_i(X),
\* P_i = rowSoftmax(Z_{i-1} f_i(X)^T), k the number of hops, for each problem
\* instance of the call.
ForwardIsHopRecurrence ==
    \A c \in Returned :
        LET fr == frames[c]
        IN  \A b \in Instances(fr) :
                Mat(Part(fr.result.z, b))
                    = HopZ(net, Mat(Part(fr.x, b)), Mat(Part(fr.q, b)), net.n_layers)

\* A returned two-hop call in which each hop changed z.
ForwardIsHopRecurrenceWitness ==
    \E c \in Returned :
        LET fr == frames[c]
            X == Mat(fr.x)
            Q == Mat(fr.q)
        IN  /\ fr.form = "call1"
            /\ net.n_layers = 2
            /\ fr.x.shape = <<MaxDim, MaxDim>>
            /\ fr.q.shape = <<MaxDim, MaxDim>>
            /\ HopZ(net, X, Q, 1) # HopZ(net, X, Q, 0)
            /\ HopZ(net, X, Q, 2) # HopZ(net, X, Q, 1)
            /\ HopP(net, X, HopZ(net, X, Q, 1), 2) # HopP(net, X, HopZ(net, X, Q, 0), 2)
            /\ Mat(fr.result.z) = HopZ(net, X, Q, 2)

\* The attention matrices an invocation holds: the p of the hop it is in,
\* the masks it has collected, the masks it returned.
HeldMasks(fr) ==
    (IF fr.p = NoTensor THEN {} ELSE {fr.p})
        \cup {fr.masks[i] : i \in 1..Len(fr.masks)}
        \cup {fr.result.masks[i] : i \in 1..Len(fr.result.masks)}

\* Every row over the last dimension (the N facts of one (b, m)) has
\* non-negative entries over one positive denominator, and they sum to it.
RowStochastic(p) ==
    LET N == p.shape[Len(p.shape)]
        R == Len(p.data) \div N
    IN  /\ Len(p.den) = Len(p.data)
        /\ \A r \in 1..R :
               /\ \A j \in 1..N : /\ p.data[(r - 1) * N + j] >= 0
                                  /\ p.den[(r - 1) * N + j] = p.den[(r - 1) * N + 1]
               /\ p.den[(r - 1) * N + 1] > 0
               /\ SumSeq([j \in 1..N |-> p.data[(r - 1) * N + j]]) = p.den[(r - 1) * N + 1]
               /\ N = 1 => p.data[(r - 1) * N + 1] = p.den[(r - 1) * N + 1]

\* C2: every row of every attention matrix, unbatched or batched, is a
\* probability distribution over the N facts of that row alone; with N = 1
\* every row is exactly [1].
MasksAreRowStochastic ==
    \A c \in Active : \A p \in HeldMasks(frames[c]) : RowStochastic(p)

\* A batched hop over two instances, two queries and two facts whose rows
\* have different denominators and an entry strictly between 0 and 1.
MasksAreRowStochasticWitness ==
    \E c \in Active :
        LET p == frames[c].p
        IN  /\ frames[c].form = "batched"
            /\ p.shape = <<MaxDim, MaxDim, MaxDim>>
            /\ \E k \in 1..Len(p.data) : 0 < p.data[k] /\ p.data[k] < p.den[k]
            /\ \E k, l \in 1..Len(p.den) : p.den[k] # p.den[l]

\* x's last dimension differs from input_size, or q's from query_size.
TrailingMismatch(n, fr) ==
    \/ (Rank(fr.x) > 0 /\ fr.x.shape[Rank(fr.x)] # n.input_size)
    \/ (Rank(fr.q) > 0 /\ fr.q.shape[Rank(fr.q)] # n.query_size)

\* The instance is one the constructor's contract admits: positive sizes
\* and at least one hop pair.
WellFormed(n) ==
    /\ n.input_size > 0 /\ n.query_size > 0 /\ n.hidden_size > 0
    /\ n.n_layers >= 1 /\ NHops(n) = n.n_layers

\* C3: a call whose x or q has the wrong last dimension fails before any
\* computation: it never applies a projection and never returns a value
\* (stated for well-formed instances, unbatched and batched calls alike).
MismatchFailsBeforeAnyProjection ==
    \A c \in Active :
        (WellFormed(net) /\ TrailingMismatch(net, frames[c])) =>
            /\ frames[c].nproj = 0
            /\ frames[c].pc # "done"
            /\ frames[c].result = NoResult

\* x's rank and q's rank are both 2, or both 3.
RanksAgree(fr) ==
    \/ (Rank(fr.x) = 2 /\ Rank(fr.q) = 2)
    \/ (Rank(fr.x) = 3 /\ Rank(fr.q) = 3)

\* Positions before the first projection of either form.
Prologue ==
    {"dispatch", "c1_h", "b_size_x", "b_flatten_x", "b_size_q", "b_flatten_q",
     "b_assert", "b_h"}

\* C4: call1 runs exactly on rank-2 x; the batched body gets past reading
\* x.size() exactly on rank-3 x; a call whose ranks are anything but 2/2 or
\* 3/3 never gets past the prologue, never returns, and ends in an error.
RankDispatch ==
    \A c \in Active :
        LET fr == frames[c]
        IN  /\ fr.form = "call1" => Rank(fr.x) = 2
            /\ (fr.form = "batched" /\ fr.pc \notin {"b_size_x", "error"}) => Rank(fr.x) = 3
            /\ fr.pc = "done" =>
                   /\ RanksAgree(fr)
                   /\ (Rank(fr.x) = 2 <=> fr.form = "call1")
                   /\ (Rank(fr.x) = 3 <=> fr.form = "batched")
            /\ ~RanksAgree(fr) =>
                   /\ fr.pc \in Prologue \cup {"error"}
                   /\ fr.result = NoResult
                   /\ Run(net, fr).pc = "error"

\* A rank-3 x with a rank-2 q has raised.
RankDispatchWitness ==
    \E c \in Raised :
        /\ Rank(frames[c].x) = 3
        /\ Rank(frames[c].q) = 2
        /\ frames[c].form = "batched"
        /\ frames[c].err = "ValueError"

\* C5: a batched call whose x and q disagree on the batch size raises
\* before any projection and returns nothing; when nothing else is wrong
\* with the shapes the error is the AssertionError of the batch-size check.
BatchMismatchFailsFast ==
    \A c \in Active :
        LET fr == frames[c]
        IN  (Rank(fr.x) = 3 /\ Rank(fr.q) = 3 /\ fr.x.shape[1] # fr.q.shape[1]) =>
                /\ fr.nproj = 0
                /\ fr.pc \in Prologue \cup {"error"}
                /\ fr.pc # "b_h"
                /\ fr.result = NoResult
                /\ Run(net, fr).pc = "error"
                /\ (fr.pc = "error" /\ ~TrailingMismatch(net, fr)) => fr.err = "AssertionError"

\* The batch-size check has raised on shapes that are otherwise right.
BatchMismatchFailsFastWitness ==
    \E c \in Raised :
        /\ frames[c].err = "AssertionError"
        /\ frames[c].x.shape = <<1, MaxDim, net.input_size>>
        /\ frames[c].q.shape = <<MaxDim, MaxDim, net.query_size>>
        /\ frames[c].nproj = 0

\* C6: constructing with a size or a layer count that is not positive fails,
\* so no instance has n_layers < 1.
ConstructorRejectsNonPositive ==
    ctor = "ok" =>
        /\ net.input_size > 0
        /\ net.query_size > 0
        /\ net.hidden_size > 0
        /\ net.n_layers >= 1
        /\ NHops(net) >= 1

\* C7: with return_masks a call returns (z, masks), masks being the
\* n_layers attention matrices P_1..P_k of the hops in hop order, each of
\* shape [M, N] ([B, M, N] batched); without it, z alone; z is the same
\* either way.
ReturnsMasksInHopOrder ==
    \A c \in Returned :
        LET fr == frames[c]
            res == fr.result
            other == RunAlone(net, fr.x, fr.q, ~fr.return_masks)
        IN  /\ other.pc = "done" /\ other.result.z = res.z
            /\ ~fr.return_masks => (res.kind = "tensor" /\ res.masks = <<>>)
            /\ fr.return_masks =>
                   /\ res.kind = "tuple"
                   /\ other.result.kind = "tensor"
                   /\ Len(res.masks) = net.n_layers
                   /\ \A i \in 1..Len(res.masks) :
                          /\ res.masks[i].shape
                                 = (IF fr.form = "call1"
                                    THEN <<fr.q.shape[1], fr.x.shape[1]>>
                                    ELSE <<fr.x.shape[1], fr.q.shape[2], fr.x.shape[2]>>)
                          /\ \A b \in Instances(fr) :
                                 LET X == Mat(Part(fr.x, b))
                                     Q == Mat(Part(fr.q, b))
                                 IN  MatP(Part(res.masks[i], b))
                                         = HopP(net, X, HopZ(net, X, Q, i - 1), i)

\* A call returned two masks that differ.
ReturnsMasksInHopOrderWitness ==
    \E c \in Returned :
        /\ frames[c].return_masks
        /\ frames[c].result.kind = "tuple"
        /\ Len(frames[c].result.masks) = 2
        /\ frames[c].result.masks[1] # frames[c].result.masks[2]

\* C8: no step of a forward call, succeeding or failing, changes the
\* instance (h, the f_i, the g_i, their number) or the caller's x and q.
ForwardOnlyReads ==
    [][/\ ctor = "ok" => (net' = net /\ ctor' = ctor)
       /\ \A c \in Calls :
              (frames[c].pc # "idle" /\ frames'[c].pc # "idle") =>
                  (frames'[c].x = frames[c].x /\ frames'[c].q = frames[c].q)]_vars

\* A batched call with masks has run its two hops and returned.
ForwardOnlyReadsWitness ==
    \E c \in Returned :
        /\ frames[c].form = "batched"
        /\ frames[c].i = MaxLayers
        /\ frames[c].nproj = 1 + MaxLayers + MaxLayers
        /\ net = MemNetInit(MaxDim, MaxDim, MaxDim, MaxLayers, 1)

\* C9: whatever the interleaving of the steps of concurrent calls, each
\* call ends as it would have run alone: same value (z and masks) or the
\* same exception; no call sees another's z or masks.
ConcurrentCallsAreIsolated ==
    \A c \in Calls :
        LET fr == frames[c]
        IN  fr.pc \in {"done", "error"} =>
                fr = RunAlone(net, fr.x, fr.q, fr.return_masks)

\* One call has returned while another, on other data, is inside its
\* second hop.
ConcurrentCallsAreIsolatedWitness ==
    \E c, d \in Calls :
        /\ frames[c].pc = "done"
        /\ frames[c].result.kind = "tuple"
        /\ frames[d].pc \in {"c1_residual", "b_residual"}
        /\ frames[d].i = 2
        /\ frames[d].x # frames[c].x
        /\ frames[d].z # NoTensor

====
